---- MODULE Spec2Model ----
(***************************************************************************)
(* DeepScrape: the crawl engine.                                           *)
(*                                                                         *)
(* Three programs of the repository are modelled as one state machine,     *)
(* selected by impl:                                                       *)
(*   "cjs"  spiderCrawl of deepscrape.cjs (spider_report.txt)              *)
(*   "esm"  spiderCrawl of src/spider.js  (all-links / broken-links /      *)
(*          incoming-links)                                                *)
(*   "pu"   processUrls of deepscrape.cjs (-u, -f, -sm, urls.txt)          *)
(* Each program is one async function; pc is its position, an action is    *)
(* the code between two awaits.  The web (probe statuses, page links,      *)
(* renderer failures) is the environment and is chosen nondeterministically*)
(* at the call that observes it.                                           *)
(***************************************************************************)
EXTENDS Integers, Sequences, FiniteSets, TLC

(***************************** bounds **************************************)
MaxSeeds == 2
MaxDepth == 2
\* the web, the renderer and the disk answer other than "ok, an HTML page" at
\* most MaxFaults times in one run
MaxFaults == 1

(***************************** URLs ****************************************)
Hosts == {"example.com", "other.com"}
Paths == {"/", "/about", "/news", "/logo.png", "/pic.jpg.html", "/view?img=1"}

MkUrl(h, p) == "https://" \o h \o p
Urls == {MkUrl(h, p) : h \in Hosts, p \in Paths}

Root      == MkUrl("example.com", "/")
About     == MkUrl("example.com", "/about")
News      == MkUrl("example.com", "/news")
Logo      == MkUrl("example.com", "/logo.png")
Other     == MkUrl("other.com", "/")
OtherLogo == MkUrl("other.com", "/logo.png")
OtherPic  == MkUrl("other.com", "/pic.jpg.html")
OtherView == MkUrl("other.com", "/view?img=1")

\* new URL(u) of a URL string u: its host and its path with the query
UrlParts == [u \in Urls |-> CHOOSE hp \in Hosts \X Paths : MkUrl(hp[1], hp[2]) = u]
\* new URL(u).hostname
Hostname(u) == UrlParts[u][1]
\* path and query of u, as written in the URL string
PathAndQuery(u) == IF u \in Urls THEN UrlParts[u][2] ELSE u

\* an href attribute that new URL(link, base) cannot parse
BadHref == "http://["

\* new URL(link, base) throws
Unparsable(link) == link \notin (Urls \cup Paths)
\* new URL(link, base).href
Resolve(link, base) == IF link \in Urls THEN link ELSE MkUrl(Hostname(base), link)

(* Lexical view of the end of a URL string: the dot-separated extensions   *)
(* that end the string, and whether it holds "?img=" or "&img=".           *)
ImageExts == {"jpg", "jpeg", "png", "gif", "svg", "webp", "bmp", "ico"}
TrailingExts(p) ==
    CASE p = "/logo.png"     -> <<"png">>
      [] p = "/pic.jpg.html" -> <<"jpg", "html">>
      [] OTHER               -> <<>>
HasImgParam(p) == p = "/view?img=1"

isImageUrl(url) ==
    LET p == PathAndQuery(url)
        e == TrailingExts(p)
        n == Len(e)
    IN  \/ (n >= 1 /\ e[n] \in ImageExts)
        \/ (n >= 2 /\ e[n] \in {"html", "htm"} /\ e[n - 1] \in ImageExts)
        \/ HasImgParam(p)

(***************************** inputs **************************************)
SeedUrls == {Root, About, Other}
\* deepscrape.cjs has no image test: to it an image seed is a seed like any
\* other; spider.js gets one
SeedsOf(program) == IF program = "esm" THEN SeedUrls \cup {Logo} ELSE SeedUrls
SeqsUpTo(S, n) == UNION {[1..k -> S] : k \in 0..n}
Rates == {0, 1000}

\* the href lists a fetched page of example.com, and one of other.com, may hold
ScenarioLinks == <<"/about", Other, "/logo.png">>
OtherLinks == { <<>>, <<"/about", Root>> }
ExampleLinks == { <<>>,
               ScenarioLinks,
               <<OtherLogo, "/news", BadHref, OtherPic, OtherView, "/news", "/">> }
Unfetched == <<"?">>
PageLinks == ExampleLinks \cup OtherLinks
\* the URLs of the bounded web that serve an image: a rendered image holds no link
ImagePaths == {"/logo.png", "/pic.jpg.html", "/view?img=1"}
LinksAt(u) ==
    IF PathAndQuery(u) \in ImagePaths THEN { <<>> }
    ELSE IF Hostname(u) = "other.com" THEN OtherLinks ELSE ExampleLinks

(***************************** JS values ***********************************)
Num(n)    == [tag |-> "number", n |-> n]
Str(s)    == [tag |-> s, n |-> 0]
Undefined == [tag |-> "undefined", n |-> 0]
ERROR     == Str("ERROR")
\* v.length of a number is undefined
LengthOfNumber(v) == Undefined
\* a < b; a comparison with undefined is false
JsLess(a, b) == a.tag = "number" /\ b.tag = "number" /\ a.n < b.n

Range(s) == {s[k] : k \in 1..Len(s)}
\* JS Set.add: insertion order is kept
SetAdd(s, x) == IF x \in Range(s) THEN s ELSE Append(s, x)

NoTask == [url |-> "", depth |-> 0]
Task(u, d) == [url |-> u, depth |-> d]
Ev(op, t, arg) == [op |-> op, url |-> t.url, depth |-> t.depth, arg |-> arg]

VARIABLES
    impl,          \* which program runs
    startUrls,     \* argument: the seed list (cjs, esm) or the URL list (pu)
    maxDepth,      \* argument
    rate,          \* argument: rate / rateLimit in ms
    pc,            \* position in the async function
    queue,         \* the work queue
    visited,       \* Set
    queued,        \* Set (esm)
    linksList,     \* Set in insertion order (esm)
    brokenLinks,   \* Set in insertion order (esm)
    incomingLinks, \* Map in insertion order: sequence of [key, val] (esm)
    results,       \* array of {url, status} (cjs)
    cur,           \* the task taken off the queue: { url, depth }
    statusCode,    \* cjs: let statusCode
    i,             \* pu: loop index
    browser,       \* "none" | "open" | "closed"
    openPages,     \* pages (tabs) opened and not closed
    htmlFiles,     \* URLs whose HTML artifact is on disk
    reportFiles,   \* report files on disk: sequence of [name, rows]
    faults,        \* answers other than "ok, an HTML page" so far
    site,          \* the links each page showed when it was fetched
    log,           \* history: what the program did, in order
    input,         \* the argument of a function studied on its own
    output,        \* its result
    crawls,        \* server: the spiderCrawl calls started by POST /scrape/spider
    disk,          \* server: the files under output/, each with its last writer
    today          \* server: the date new Date() gives

vars == <<impl, startUrls, maxDepth, rate, pc, queue, visited, queued, linksList,
          brokenLinks, incomingLinks, results, cur, statusCode, i, browser,
          openPages, htmlFiles, reportFiles, faults, site, log,
          input, output, crawls, disk, today>>

pure == <<input, output>>
api == <<crawls, disk, today>>

args == <<impl, startUrls, maxDepth, rate>>

\* no function is under study, the server is not running
NoCall == input = <<>> /\ output = <<>>
NoServer == crawls = <<>> /\ disk = {} /\ today = 0

\* the state before anything has run
Fresh ==
    /\ queue = <<>>
    /\ visited = {}
    /\ queued = {}
    /\ linksList = <<>>
    /\ brokenLinks = <<>>
    /\ incomingLinks = <<>>
    /\ results = <<>>
    /\ cur = NoTask
    /\ statusCode = Undefined
    /\ i = 0
    /\ browser = "none"
    /\ openPages = 0
    /\ htmlFiles = {}
    /\ reportFiles = <<>>
    /\ faults = 0
    /\ site = [u \in Urls |-> Unfetched]
    /\ log = <<>>

Init ==
    /\ impl \in {"cjs", "esm", "pu"}
    /\ startUrls \in SeqsUpTo(SeedsOf(impl), MaxSeeds)
    /\ maxDepth \in 0..MaxDepth
    /\ rate \in Rates
    /\ pc = "start"
    /\ Fresh /\ NoCall /\ NoServer

\* the same with seeds that new URL cannot parse
SeedInit ==
    /\ impl \in {"cjs", "esm"}
    /\ startUrls \in SeqsUpTo(SeedsOf(impl) \cup {BadHref}, MaxSeeds)
    /\ maxDepth \in 0..MaxDepth
    /\ rate \in Rates
    /\ pc = "start"
    /\ Fresh /\ NoCall /\ NoServer

\* the page at u shows the href list l (a page shows the same links each time)
Shows(u, l) == l \in LinksAt(u) /\ site[u] \in {Unfetched, l}

\* the environment answers; an answer that is a fault uses up the budget
Answer(isFault) ==
    /\ isFault => faults < MaxFaults
    /\ faults' = IF isFault THEN faults + 1 ELSE faults

\* fs.writeFile / fs.writeFileSync: creates the file or overwrites it
WriteFile(files, name, rows) ==
    IF \E k \in 1..Len(files) : files[k].name = name
    THEN [k \in 1..Len(files) |->
             IF files[k].name = name THEN [name |-> name, rows |-> rows] ELSE files[k]]
    ELSE Append(files, [name |-> name, rows |-> rows])

\* `${status}` of a status code or of 'ERROR'
StatusText(st) == IF st.tag = "number" THEN ToString(st.n) ELSE st.tag

(***************************************************************************)
(* spiderCrawl of deepscrape.cjs                                           *)
(***************************************************************************)

\* lines 296-304: the comma-separated pieces, trimmed, empty pieces dropped
SplitSeeds(pieces) == SelectSeq(pieces, LAMBDA u : u # "")

\* lines 306-316: seed the queue and the visited set, launch the browser
CjsStart ==
    /\ impl = "cjs" /\ pc = "start"
    /\ LET seeds == SplitSeeds(startUrls)
       IN  /\ queue' = [k \in 1..Len(seeds) |-> Task(seeds[k], 0)]
           /\ visited' = Range(seeds)
    /\ results' = <<>>
    /\ browser' = "open"
    /\ pc' = "loop"
    /\ UNCHANGED <<args, pure, api, faults, queued, linksList, brokenLinks, incomingLinks, cur,
                   statusCode, i, openPages, htmlFiles, reportFiles, site, log>>

\* lines 318-320 with queue.pop() in place of queue.shift()
CjsDequeue_Pop ==
    /\ impl = "cjs" /\ pc = "loop"
    /\ Len(queue) > 0
    /\ cur' = queue[Len(queue)]
    /\ queue' = SubSeq(queue, 1, Len(queue) - 1)
    /\ log' = Append(log, Ev("SHIFT", queue[Len(queue)], ""))
    /\ pc' = "head"
    /\ UNCHANGED <<args, pure, api, faults, visited, queued, linksList, brokenLinks,
                   incomingLinks, results, statusCode, i, browser, openPages,
                   htmlFiles, reportFiles, site>>

\* lines 318-320: while (queue.length > 0) { const { url, depth } = queue.shift();
CjsDequeue ==
    /\ impl = "cjs" /\ pc = "loop"
    /\ Len(queue) > 0
    /\ cur' = Head(queue)
    /\ queue' = Tail(queue)
    /\ log' = Append(log, Ev("SHIFT", Head(queue), ""))
    /\ pc' = "head"
    /\ UNCHANGED <<args, pure, api, faults, visited, queued, linksList, brokenLinks, incomingLinks,
                   results, statusCode, i, browser, openPages, htmlFiles,
                   reportFiles, site>>

\* line 318: the queue is empty, the loop ends
CjsLoopExit ==
    /\ impl = "cjs" /\ pc = "loop"
    /\ ~(Len(queue) > 0)
    /\ pc' = "report"
    /\ UNCHANGED <<args, pure, api, faults, queue, visited, queued, linksList, brokenLinks,
                   incomingLinks, results, cur, statusCode, i, browser, openPages,
                   htmlFiles, reportFiles, site, log>>

\* what axios.head leaves in statusCode: resp.status, error.response.status or 'ERROR'
CjsStatuses == {Num(200), Num(404), ERROR}
\* the request for a URL that axios cannot parse is rejected without a response
CjsStatusesOf(url) == IF url \in Urls THEN CjsStatuses ELSE {ERROR}

\* line 335 with depth <= maxDepth in place of depth < maxDepth
CjsPageOk_Inclusive(st, depth) == st # ERROR /\ JsLess(st, Num(400)) /\ depth <= maxDepth

\* line 335 without the status test
CjsPageOk_AnyStatus(st, depth) == depth < maxDepth

\* line 335: statusCode !== 'ERROR' && statusCode < 400 && depth < maxDepth
CjsPageOk(st, depth) == st # ERROR /\ JsLess(st, Num(400)) /\ depth < maxDepth

\* lines 322-335: the HEAD probe, results.push, and the test that guards the render
CjsHead ==
    /\ impl = "cjs" /\ pc = "head"
    /\ \E st \in CjsStatusesOf(cur.url) :
          /\ statusCode' = st
          /\ Answer(st # Num(200) /\ cur.url \in Urls)
          /\ results' = Append(results, [url |-> cur.url, status |-> st])
          /\ log' = Append(log, Ev("HEAD", cur, StatusText(st)))
          /\ pc' = IF CjsPageOk(st, cur.depth) THEN "render" ELSE "rate"
    /\ UNCHANGED <<args, pure, api, queue, visited, queued, linksList, brokenLinks,
                   incomingLinks, cur, i, browser, openPages, htmlFiles,
                   reportFiles, site>>

\* line 359 without the visited test
CjsShouldQueue_NoVisited(linkDomain, domain, newUrl, vis) == linkDomain = domain

CjsShouldQueue_AnyDomain(linkDomain, domain, newUrl, vis) == newUrl \notin vis

\* line 359: linkDomain === domain && !visited.has(newUrl)
CjsShouldQueue(linkDomain, domain, newUrl, vis) == linkDomain = domain /\ newUrl \notin vis

\* lines 354-366: the loop over the anchors of the page at t
\* st = [queue, visited, log]
RECURSIVE CjsEnqueueLinks(_, _, _, _)
CjsEnqueueLinks(anchors, k, t, st) ==
    IF k > Len(anchors) THEN st
    ELSE IF Unparsable(anchors[k])
    THEN CjsEnqueueLinks(anchors, k + 1, t, st)
    ELSE LET newUrl == Resolve(anchors[k], t.url)
             domain == Hostname(t.url)
         IN  IF CjsShouldQueue(Hostname(newUrl), domain, newUrl, st.visited)
             THEN CjsEnqueueLinks(anchors, k + 1, t,
                      [queue   |-> Append(st.queue, Task(newUrl, t.depth + 1)),
                       visited |-> st.visited \cup {newUrl},
                       log     |-> Append(st.log, Ev("PUSH", t, newUrl))])
             ELSE CjsEnqueueLinks(anchors, k + 1, t, st)

\* how the try block of lines 336-366 ends
\*   "ok"            every call returned
\*   "newPageFails"  browser.newPage() threw
\*   "renderFails"   goto, handleCookieBanner, page.content or the HTML write threw
\*   "extractFails"  the HTML is written; a later call up to page.$$eval('a') threw
CjsRenderOutcomes == {"ok", "newPageFails", "renderFails", "extractFails"}

\* lines 336-369: render, persist, extract links; every exception is caught at 367
CjsRender ==
    /\ impl = "cjs" /\ pc = "render"
    /\ \E outcome \in CjsRenderOutcomes, l \in PageLinks :
          /\ Shows(cur.url, l)
          /\ Answer(outcome # "ok")
          /\ IF outcome = "newPageFails"
             THEN UNCHANGED <<queue, visited, openPages, htmlFiles, site, log>>
             ELSE IF outcome = "renderFails"
             THEN /\ openPages' = openPages + 1
                  /\ log' = Append(log, Ev("GOTO", cur, ""))
                  /\ UNCHANGED <<queue, visited, htmlFiles, site>>
             ELSE IF outcome = "extractFails"
             THEN /\ openPages' = openPages + 1
                  /\ htmlFiles' = htmlFiles \cup {cur.url}
                  /\ log' = Append(Append(log, Ev("GOTO", cur, "")), Ev("SAVE", cur, ""))
                  /\ UNCHANGED <<queue, visited, site>>
             ELSE LET st == CjsEnqueueLinks(l, 1, cur,
                                [queue |-> queue, visited |-> visited,
                                 log |-> Append(Append(log, Ev("GOTO", cur, "")),
                                                Ev("SAVE", cur, ""))])
                  IN  /\ htmlFiles' = htmlFiles \cup {cur.url}
                      /\ site' = [site EXCEPT ![cur.url] = l]
                      /\ queue' = st.queue
                      /\ visited' = st.visited
                      /\ log' = st.log
                      /\ UNCHANGED openPages
    /\ pc' = "rate"
    /\ UNCHANGED <<args, pure, api, queued, linksList, brokenLinks, incomingLinks, results,
                   cur, statusCode, i, browser, reportFiles>>

\* lines 372-375: if (rate > 0) await the delay
CjsRateLimit ==
    /\ impl = "cjs" /\ pc = "rate"
    /\ log' = IF rate > 0 THEN Append(log, Ev("WAIT", cur, "")) ELSE log
    /\ pc' = "loop"
    /\ UNCHANGED <<args, pure, api, faults, queue, visited, queued, linksList, brokenLinks,
                   incomingLinks, results, cur, statusCode, i, browser, openPages,
                   htmlFiles, reportFiles, site>>

\* lines 379-382 with the rows of failed probes left out
CjsReportRows_OkOnly(rs) ==
    LET oks == SelectSeq(rs, LAMBDA r : r.status = Num(200))
    IN  <<"URL, STATUS">> \o [k \in 1..Len(oks) |-> oks[k].url \o ", " \o StatusText(oks[k].status)]

\* lines 379-382: the text of spider_report.txt, one row per entry of results
CjsReportRows(rs) ==
    <<"URL, STATUS">> \o [k \in 1..Len(rs) |-> rs[k].url \o ", " \o StatusText(rs[k].status)]

\* lines 378-384: fs.writeFileSync either writes the report or throws (uncaught)
CjsWriteReport ==
    /\ impl = "cjs" /\ pc = "report"
    /\ \E written \in BOOLEAN :
          /\ Answer(~written)
          /\ IF written
             THEN /\ reportFiles' = WriteFile(reportFiles, "spider_report.txt",
                                              CjsReportRows(results))
                  /\ pc' = "close"
             ELSE /\ pc' = "aborted"
                  /\ UNCHANGED reportFiles
    /\ UNCHANGED <<args, pure, api, queue, visited, queued, linksList, brokenLinks,
                   incomingLinks, results, cur, statusCode, i, browser, openPages,
                   htmlFiles, site, log>>

\* line 386: await browser.close()
CjsClose ==
    /\ impl = "cjs" /\ pc = "close"
    /\ browser' = "closed"
    /\ pc' = "done"
    /\ UNCHANGED <<args, pure, api, faults, queue, visited, queued, linksList, brokenLinks,
                   incomingLinks, results, cur, statusCode, i, openPages,
                   htmlFiles, reportFiles, site, log>>

CjsNext ==
    \/ CjsStart \/ CjsDequeue \/ CjsLoopExit \/ CjsHead \/ CjsRender
    \/ CjsRateLimit \/ CjsWriteReport \/ CjsClose


(***************************************************************************)
(* spiderCrawl of src/spider.js                                            *)
(***************************************************************************)

\* line 35: const domain = new URL(startUrls[0]).hostname
EsmDomain == Hostname(startUrls[1])

\* lines 30-55: empty seed list returns; new URL(startUrls[0]) throws when the
\* first seed cannot be parsed; else queue = startUrls.map(...), launch
EsmStart ==
    /\ impl = "esm" /\ pc = "start"
    /\ IF Len(startUrls) = 0
       THEN /\ pc' = "returned"
            /\ UNCHANGED <<queue, browser>>
       ELSE IF startUrls[1] \notin Urls
       THEN /\ pc' = "aborted"
            /\ UNCHANGED <<queue, browser>>
       ELSE /\ queue' = [k \in 1..Len(startUrls) |-> Task(startUrls[k], 0)]
            /\ browser' = "open"
            /\ pc' = "loop"
    /\ visited' = {}
    /\ queued' = {}
    /\ linksList' = <<>>
    /\ brokenLinks' = <<>>
    /\ incomingLinks' = <<>>
    /\ UNCHANGED <<args, pure, api, faults, results, cur, statusCode, i, openPages, htmlFiles,
                   reportFiles, site, log>>

\* line 59 with depth > maxDepth in place of depth >= maxDepth
EsmSkip_Strict(t) == t.depth > maxDepth \/ t.url \in visited \/ isImageUrl(t.url)

\* line 59: if (depth >= maxDepth || visited.has(url) || isImageUrl(url)) continue
EsmSkip(t) == t.depth >= maxDepth \/ t.url \in visited \/ isImageUrl(t.url)

\* lines 57-62: shift a task; skip it, or mark it visited and go on to the probe
EsmDequeue ==
    /\ impl = "esm" /\ pc = "loop"
    /\ Len(queue) > 0
    /\ cur' = Head(queue)
    /\ queue' = Tail(queue)
    /\ log' = Append(log, Ev("SHIFT", Head(queue), ""))
    /\ IF EsmSkip(Head(queue))
       THEN /\ pc' = "loop"
            /\ UNCHANGED visited
       ELSE /\ visited' = visited \cup {Head(queue).url}
            /\ pc' = "head"
    /\ UNCHANGED <<args, pure, api, faults, queued, linksList, brokenLinks, incomingLinks, results,
                   statusCode, i, browser, openPages, htmlFiles, reportFiles, site>>

\* lines 57, 104: the queue is empty; await browser.close()
EsmLoopExit ==
    /\ impl = "esm" /\ pc = "loop"
    /\ Len(queue) = 0
    /\ browser' = "closed"
    /\ pc' = "report"
    /\ UNCHANGED <<args, pure, api, faults, queue, visited, queued, linksList, brokenLinks,
                   incomingLinks, results, cur, statusCode, i, openPages, htmlFiles,
                   reportFiles, site, log>>

\* lines 95-98: incomingLinks.get(url).push(url), the entry created when missing
EsmIncoming(m, url) ==
    IF \E k \in 1..Len(m) : m[k].key = url
    THEN [k \in 1..Len(m) |->
             IF m[k].key = url THEN [key |-> url, val |-> Append(m[k].val, url)] ELSE m[k]]
    ELSE Append(m, [key |-> url, val |-> <<url>>])

\* what axios.head answers: a 2xx text/html response, a 2xx response of another
\* content type, or a rejection (status outside 2xx, timeout, no connection)
EsmHeadOutcomes == {"html", "other", "fail"}
\* the request for a URL that axios cannot parse is rejected
EsmHeadOutcomesOf(url) == IF url \in Urls THEN EsmHeadOutcomes ELSE {"fail"}

\* lines 64-70, 90-98: the HEAD probe and the content-type gate
EsmHead ==
    /\ impl = "esm" /\ pc = "head"
    /\ \E outcome \in EsmHeadOutcomesOf(cur.url) :
          /\ log' = Append(log, Ev("HEAD", cur, outcome))
          /\ Answer(outcome # "html" /\ cur.url \in Urls)
          /\ IF outcome = "fail"
             THEN /\ brokenLinks' = SetAdd(brokenLinks, cur.url)
                  /\ incomingLinks' = EsmIncoming(incomingLinks, cur.url)
                  /\ pc' = "scrape"
             ELSE IF outcome = "other"
             THEN /\ pc' = "loop"
                  /\ UNCHANGED <<brokenLinks, incomingLinks>>
             ELSE /\ pc' = "get"
                  /\ UNCHANGED <<brokenLinks, incomingLinks>>
    /\ UNCHANGED <<args, pure, api, queue, visited, queued, linksList, results, cur,
                   statusCode, i, browser, openPages, htmlFiles, reportFiles, site>>

\* line 79 without the image test
EsmSkipLink_NoImageTest(link, vis, qd) == link \in vis \/ link \in qd

\* line 79: if (isImageUrl(link) || visited.has(link) || queued.has(link)) continue
EsmSkipLink(link, vis, qd) == isImageUrl(link) \/ link \in vis \/ link \in qd

\* lines 75-89: the loop over the href values found in the page at t
\* st = [queue, queued, linksList, log]
RECURSIVE EsmEnqueueLinks(_, _, _, _)
EsmEnqueueLinks(matches, k, t, st) ==
    IF k > Len(matches) THEN st
    ELSE IF Unparsable(matches[k])
    THEN EsmEnqueueLinks(matches, k + 1, t, st)
    ELSE LET link == Resolve(matches[k], t.url)
         IN  IF EsmSkipLink(link, visited, st.queued)
             THEN EsmEnqueueLinks(matches, k + 1, t, st)
             ELSE EsmEnqueueLinks(matches, k + 1, t,
                      [queue     |-> IF Hostname(link) = EsmDomain
                                     THEN Append(st.queue, Task(link, t.depth + 1))
                                     ELSE st.queue,
                       queued    |-> st.queued \cup {link},
                       linksList |-> SetAdd(st.linksList, link),
                       log       |-> IF Hostname(link) = EsmDomain
                                     THEN Append(st.log, Ev("PUSH", t, link))
                                     ELSE st.log])

\* lines 72-98: axios.get and the link loop; a rejection is caught at line 90
EsmGet ==
    /\ impl = "esm" /\ pc = "get"
    /\ \E ok \in BOOLEAN, l \in PageLinks :
          /\ Shows(cur.url, l)
          /\ Answer(~ok)
          /\ IF ok
             THEN LET st == EsmEnqueueLinks(l, 1, cur,
                                [queue |-> queue, queued |-> queued,
                                 linksList |-> linksList,
                                 log |-> Append(log, Ev("GET", cur, "ok"))])
                  IN  /\ site' = [site EXCEPT ![cur.url] = l]
                      /\ queue' = st.queue
                      /\ queued' = st.queued
                      /\ linksList' = st.linksList
                      /\ log' = st.log
                      /\ UNCHANGED brokenLinks
             ELSE /\ brokenLinks' = SetAdd(brokenLinks, cur.url)
                  /\ log' = Append(log, Ev("GET", cur, "fail"))
                  /\ UNCHANGED <<site, queue, queued, linksList>>
    /\ incomingLinks' = EsmIncoming(incomingLinks, cur.url)
    /\ pc' = "scrape"
    /\ UNCHANGED <<args, pure, api, visited, results, cur, statusCode, i, browser, openPages,
                   htmlFiles, reportFiles>>

\* how scrapePage ends
\*   "ok"            the HTML is written, the page closed
\*   "renderFails"   goto .. writeFile threw: caught at line 62, the page closed
\*   "newPageFails"  browser.newPage() (line 36, outside the try) threw
EsmScrapeOutcomes == {"ok", "renderFails", "newPageFails"}
\* page.goto of a URL that cannot be parsed throws
EsmScrapeOutcomesOf(url) == IF url \in Urls THEN EsmScrapeOutcomes ELSE EsmScrapeOutcomes \ {"ok"}

\* line 100 and scrapePage (scraper.js lines 34-67)
EsmScrape ==
    /\ impl = "esm" /\ pc = "scrape"
    /\ \E outcome \in EsmScrapeOutcomesOf(cur.url) :
          /\ Answer(outcome = "newPageFails" \/ (outcome = "renderFails" /\ cur.url \in Urls))
          /\ IF outcome = "newPageFails"
             THEN /\ pc' = "aborted"
                  /\ UNCHANGED <<htmlFiles, log>>
             ELSE IF outcome = "renderFails"
             THEN /\ pc' = "rate"
                  /\ log' = Append(log, Ev("GOTO", cur, ""))
                  /\ UNCHANGED htmlFiles
             ELSE /\ pc' = "rate"
                  /\ htmlFiles' = htmlFiles \cup {cur.url}
                  /\ log' = Append(Append(log, Ev("GOTO", cur, "")), Ev("SAVE", cur, ""))
    /\ UNCHANGED <<args, pure, api, queue, visited, queued, linksList, brokenLinks,
                   incomingLinks, results, cur, statusCode, i, browser, openPages,
                   reportFiles, site>>

\* line 101: await waitMs(rateLimit)
EsmWait ==
    /\ impl = "esm" /\ pc = "rate"
    /\ log' = Append(log, Ev("WAIT", cur, ""))
    /\ pc' = "loop"
    /\ UNCHANGED <<args, pure, api, faults, queue, visited, queued, linksList, brokenLinks,
                   incomingLinks, results, cur, statusCode, i, browser, openPages,
                   htmlFiles, reportFiles, site>>

\* lines 107-109: the report files in the order they are written
EsmReports ==
    << [name |-> "all-links.txt",      rows |-> linksList],
       [name |-> "broken-links.txt",   rows |-> brokenLinks],
       [name |-> "incoming-links.txt", rows |-> incomingLinks] >>

\* the first n files of fs written over files
RECURSIVE WriteFiles(_, _, _)
WriteFiles(files, fs, n) ==
    IF n = 0 THEN files
    ELSE LET done == WriteFiles(files, fs, n - 1)
         IN  WriteFile(done, fs[n].name, fs[n].rows)

\* lines 107-109: three awaited writes; the first that rejects is not caught
\* and ends spiderCrawl, the files before it are on disk
EsmWriteReports ==
    /\ impl = "esm" /\ pc = "report"
    /\ \E n \in 0..Len(EsmReports) :
          /\ Answer(n < Len(EsmReports))
          /\ reportFiles' = WriteFiles(reportFiles, EsmReports, n)
          /\ pc' = IF n = Len(EsmReports) THEN "done" ELSE "aborted"
    /\ UNCHANGED <<args, pure, api, queue, visited, queued, linksList, brokenLinks,
                   incomingLinks, results, cur, statusCode, i, browser, openPages,
                   htmlFiles, site, log>>

EsmNext ==
    \/ EsmStart \/ EsmDequeue \/ EsmLoopExit \/ EsmHead \/ EsmGet \/ EsmScrape
    \/ EsmWait \/ EsmWriteReports

(***************************************************************************)
(* processUrls of deepscrape.cjs                                           *)
(***************************************************************************)

\* line 391: const totalUrls = urls.length
totalUrls == Num(Len(startUrls))

\* lines 392-406: start the progress bar, launch the browser; let i = 0
PuStart ==
    /\ impl = "pu" /\ pc = "start"
    /\ browser' = "open"
    /\ i' = 0
    /\ pc' = "loop"
    /\ UNCHANGED <<args, pure, api, faults, queue, visited, queued, linksList, brokenLinks,
                   incomingLinks, results, cur, statusCode, openPages, htmlFiles,
                   reportFiles, site, log>>

\* line 408: i < totalUrls.length
PuLoopTest(k) == JsLess(Num(k), LengthOfNumber(totalUrls))

\* lines 408-484: the loop test and one pass of the loop body: axios.get either
\* answers (the HTML is saved, lines 412-423) or rejects (caught at line 472)
PuIterate ==
    /\ impl = "pu" /\ pc = "loop"
    /\ IF PuLoopTest(i)
       THEN \E ok \in BOOLEAN :
               LET t == Task(startUrls[i + 1], 0)
               IN  /\ Answer(~ok)
                   /\ log' = Append(log, Ev("GET", t, IF ok THEN "ok" ELSE "fail"))
                   /\ htmlFiles' = IF ok THEN htmlFiles \cup {t.url} ELSE htmlFiles
                   /\ i' = i + 1
                   /\ pc' = "loop"
       ELSE /\ pc' = "close"
            /\ UNCHANGED <<log, htmlFiles, i, faults>>
    /\ UNCHANGED <<args, pure, api, queue, visited, queued, linksList, brokenLinks,
                   incomingLinks, results, cur, statusCode, browser, openPages,
                   reportFiles, site>>

\* lines 485-487: progressBar.stop(); await browser.close()
PuClose ==
    /\ impl = "pu" /\ pc = "close"
    /\ browser' = "closed"
    /\ pc' = "done"
    /\ UNCHANGED <<args, pure, api, faults, queue, visited, queued, linksList, brokenLinks,
                   incomingLinks, results, cur, statusCode, i, openPages, htmlFiles,
                   reportFiles, site, log>>

PuNext == PuStart \/ PuIterate \/ PuClose

Next == CjsNext \/ EsmNext \/ PuNext

Spec == Init /\ [][Next]_vars

\* the two crawlers
SpiderNext == CjsNext \/ EsmNext

SeedSpec == SeedInit /\ [][SpiderNext]_vars

\* an async function whose awaited call has settled goes on: some step is taken
\* whenever one is possible
FairSpec == Spec /\ WF_vars(Next)

(***************************************************************************)
(* History read off the log                                                *)
(***************************************************************************)
Spider == impl \in {"cjs", "esm"}

\* the events of one kind, in order
Events(op) == SelectSeq(log, LAMBDA e : e.op = op)
\* the URLs of a sequence of events
UrlsOf(es) == [k \in 1..Len(es) |-> es[k].url]
\* how often the program did op on the task URL u
Count(op, u) == Cardinality({k \in 1..Len(log) : log[k].op = op /\ log[k].url = u})
\* the page at s was fetched and one of its links resolves to c
Linked(s, c) ==
    /\ site[s] # Unfetched
    /\ \E k \in 1..Len(site[s]) :
          ~Unparsable(site[s][k]) /\ Resolve(site[s][k], s) = c
\* the rows of a report file on disk; <<>> when the file is not there
FileRows(name) ==
    IF \E k \in 1..Len(reportFiles) : reportFiles[k].name = name
    THEN (CHOOSE f \in Range(reportFiles) : f.name = name).rows
    ELSE <<>>
FileExists(name) == \E k \in 1..Len(reportFiles) : reportFiles[k].name = name
\* the probe of the task that event k belongs to: the last HEAD before k
ProbeBefore(k) ==
    LET js == {j \in 1..(k - 1) : log[j].op = "HEAD"}
    IN  IF js = {} THEN 0 ELSE CHOOSE j \in js : \A j2 \in js : j2 <= j
FailedProbe(e) == e.op = "HEAD" /\ e.arg \in {"404", "ERROR", "fail"}

(***************************************************************************)
(* Claims                                                                  *)
(***************************************************************************)

\* C1: in every spiderCrawl run, the sequence of tasks taken off the work queue
\* (queue.shift) never contains the same URL twice.
C1_NoUrlDequeuedTwice ==
    Spider =>
        LET shifted == UrlsOf(Events("SHIFT"))
        IN  \A j, k \in 1..Len(shifted) : j # k => shifted[j] # shifted[k]

\* C2: two distinct seeds on one domain whose pages both link to a common
\* same-domain page, maxDepth at least 2, the crawl run to its end: the common
\* page is probed exactly once and rendered at most once, and exactly once
\* when no probe, render or write failed.
C2_Case(c) ==
    /\ Spider /\ pc = "done"
    /\ Len(startUrls) = 2 /\ startUrls[1] # startUrls[2]
    /\ Hostname(startUrls[1]) = Hostname(startUrls[2])
    /\ maxDepth >= 2
    /\ Hostname(c) = Hostname(startUrls[1]) /\ ~isImageUrl(c)
    /\ Linked(startUrls[1], c) /\ Linked(startUrls[2], c)
C2_SharedPageOnce ==
    \A c \in Urls :
        C2_Case(c) =>
            /\ Count("HEAD", c) = 1
            /\ Count("GOTO", c) <= 1
            /\ faults = 0 => (Count("GOTO", c) = 1 /\ Count("SAVE", c) = 1)
C2_Witness ==
    C2_Case(News) /\ Count("HEAD", News) = 1 /\ Count("GOTO", News) = 1

\* C3: with maxDepth = D, no task is dequeued with depth > D, and no task with
\* depth = D has a child task enqueued.
C3_DepthBound ==
    Spider =>
        \A k \in 1..Len(log) :
            /\ log[k].op = "SHIFT" => log[k].depth <= maxDepth
            /\ log[k].op = "PUSH" => log[k].depth # maxDepth
C3_Witness ==
    /\ Spider /\ pc = "done" /\ maxDepth = 1
    /\ \E k \in 1..Len(log) : log[k].op = "SHIFT" /\ log[k].depth = maxDepth
    /\ \E k \in 1..Len(log) : log[k].op = "PUSH"

\* C4: processUrls fetches every URL of its input list exactly once, in list
\* order, whether or not an earlier URL failed.
C4_ProcessUrlsFetchesAll ==
    (impl = "pu" /\ pc = "done") => UrlsOf(Events("GET")) = startUrls

\* C5: in spiderCrawl of spider.js, every link found on a fetched page whose
\* hostname differs from the seed's hostname is in the all-links report and
\* is never pushed onto the work queue.
C5_CrossDomainLinksReported ==
    (impl = "esm" /\ pc = "done") =>
        \A u, c \in Urls :
            (Linked(u, c) /\ Hostname(c) # EsmDomain) =>
                /\ c \in Range(FileRows("all-links.txt"))
                /\ \A k \in 1..Len(log) : log[k].op = "PUSH" => log[k].arg # c

\* C6: seed https://example.com/, maxDepth = 1, the seed page links to /about,
\* https://other.com/ and /logo.png: the crawl probes exactly the seed and then
\* /about; other.com is no task (and is in the all-links report); /logo.png is
\* never enqueued and never probed.
C6_Scenario ==
    (/\ Spider /\ pc = "done" /\ faults = 0
     /\ startUrls = <<Root>> /\ maxDepth = 1 /\ site[Root] = ScenarioLinks)
    =>
        /\ UrlsOf(Events("HEAD")) = <<Root, About>>
        /\ Count("SHIFT", Other) = 0
        /\ impl = "esm" => Other \in Range(FileRows("all-links.txt"))
        /\ Count("SHIFT", Logo) = 0
        /\ \A k \in 1..Len(log) : log[k].op = "PUSH" => log[k].arg # Logo

\* C7: when the status probe of a dequeued task fails, the task is recorded as
\* broken and is neither rendered nor saved, and no link of it is enqueued.
C7_FailedProbeNoRender ==
    Spider =>
        \A k \in 1..Len(log) :
            LET h == ProbeBefore(k)
            IN  (h > 0 /\ FailedProbe(log[h])) =>
                    /\ log[k].op \notin {"GET", "GOTO", "SAVE", "PUSH"}
                    /\ impl = "cjs" =>
                           \E r \in 1..Len(results) :
                               /\ results[r].url = log[h].url
                               /\ StatusText(results[r].status) = log[h].arg
                    /\ impl = "esm" => log[h].url \in Range(brokenLinks)

\* C8: a failure of a single task never aborts the crawl: an exception leaves
\* spiderCrawl only from the report-writing step.
C8_TaskFailureNeverAborts ==
    [][(Spider /\ pc' = "aborted") => pc = "report"]_vars

\* C9: in spiderCrawl of deepscrape.cjs, results holds one {url, status} entry
\* per dequeued task, in dequeue order (the entry of the task under probe is
\* still to come), and spider_report.txt, once written, holds the header and
\* one row per dequeued task, in dequeue order, with the status its probe gave.
C9_Probing == IF pc = "head" THEN 1 ELSE 0
C9_ResultsAndReport ==
    impl = "cjs" =>
        LET shifted == Events("SHIFT")
            probes  == Events("HEAD")
            rows    == FileRows("spider_report.txt")
        IN  /\ Len(results) = Len(shifted) - C9_Probing
            /\ \A k \in 1..Len(results) :
                  /\ results[k].url = shifted[k].url
                  /\ results[k].url = probes[k].url
                  /\ StatusText(results[k].status) = probes[k].arg
            /\ FileExists("spider_report.txt") =>
                  /\ Len(rows) = Len(shifted) + 1
                  /\ rows[1] = "URL, STATUS"
                  /\ \A k \in 1..Len(shifted) :
                        rows[k + 1] = shifted[k].url \o ", " \o probes[k].arg
            /\ pc = "done" => FileExists("spider_report.txt")
\* a finished crawl whose every page failed, and its report
C9_Witness ==
    /\ impl = "cjs" /\ pc = "done"
    /\ Len(results) >= 1
    /\ \A k \in 1..Len(results) : results[k].status # Num(200)
    /\ Len(FileRows("spider_report.txt")) = Len(results) + 1

\* C10: with a positive rate limit, the delay elapses between the probe of a
\* task and the probe of the next task, however the first task ended.
C10_DelayBeforeNextProbe ==
    (Spider /\ rate > 0) =>
        \A j, k \in 1..Len(log) :
            (j < k /\ log[j].op = "HEAD" /\ log[k].op = "HEAD") =>
                \E w \in (j + 1)..(k - 1) : log[w].op = "WAIT"

\* C11: in both spiderCrawl implementations, the browser launched at the start
\* of the crawl is closed on every exit path: normal completion, an exception
\* while a task is processed, a failure while the report is written.
C11_BrowserClosedOnExit ==
    (Spider /\ pc \in {"done", "aborted"}) => browser = "closed"

\* the events that belong to the task probed at log position h
TaskEvents(h) == {k \in 1..Len(log) : k > h /\ ProbeBefore(k) = h}
\* the keys of the incomingLinks map
IncomingKeys == {incomingLinks[k].key : k \in 1..Len(incomingLinks)}

\* C12: in spiderCrawl of spider.js, a task whose HEAD probe reports a content
\* type other than text/html is not fetched, rendered or saved, no link of it is
\* enqueued, and the task is recorded in the data the reports are written from.
C12_NonHtmlLeafRecorded ==
    impl = "esm" =>
        \A h \in 1..Len(log) :
            (log[h].op = "HEAD" /\ log[h].arg = "other") =>
                /\ \A k \in TaskEvents(h) :
                       log[k].op \notin {"GET", "GOTO", "SAVE", "PUSH"}
                /\ log[h].url \in Range(linksList) \cup Range(brokenLinks)
                                     \cup IncomingKeys

\* C13: in spiderCrawl of spider.js, no URL that isImageUrl matches is pushed
\* onto the queue by link extraction, and none, seed or link, is probed,
\* fetched, rendered or saved.
C13_ImagesNeverCrawled ==
    impl = "esm" =>
        \A k \in 1..Len(log) :
            /\ log[k].op = "PUSH" => ~isImageUrl(log[k].arg)
            /\ log[k].op \in {"HEAD", "GET", "GOTO", "SAVE"} => ~isImageUrl(log[k].url)
\* an image seed was taken off the queue, and a fetched page showed links of
\* all three image patterns
C13_Witness ==
    /\ impl = "esm" /\ pc = "done"
    /\ Count("SHIFT", Logo) >= 1
    /\ \E u \in Urls :
          /\ Linked(u, OtherPic) /\ Linked(u, OtherView) /\ Linked(u, OtherLogo)
    /\ \E u \in Urls : Linked(u, Logo)

\* the probe at log position h belongs to a task the crawl has left behind:
\* a later task was taken off the queue
Processed(h) == \E k \in (h + 1)..Len(log) : log[k].op = "SHIFT"
\* the URL u is in a report file on disk
InReportOnDisk(u) ==
    \/ \E st \in CjsStatuses :
          (u \o ", " \o StatusText(st)) \in Range(FileRows("spider_report.txt"))
    \/ u \in Range(FileRows("all-links.txt")) \cup Range(FileRows("broken-links.txt"))
    \/ \E r \in Range(FileRows("incoming-links.txt")) : r.key = u

\* C17: the report is streamed: in both spiderCrawl implementations, once a
\* task has been processed its result is in the report on disk, so a crash at
\* any later point leaves a report that holds every task processed so far.
C17_ReportStreamed ==
    Spider =>
        \A h \in 1..Len(log) :
            (log[h].op = "HEAD" /\ Processed(h)) => InReportOnDisk(log[h].url)

\* C18: at completion of spiderCrawl of spider.js, every URL written to
\* broken-links.txt is also written to all-links.txt.
C18_BrokenSubsetOfAll ==
    (impl = "esm" /\ pc = "done") =>
        Range(FileRows("broken-links.txt")) \subseteq Range(FileRows("all-links.txt"))

\* the link targets found on the fetched page s
Targets(s) ==
    {Resolve(site[s][k], s) : k \in {j \in 1..Len(site[s]) : ~Unparsable(site[s][j])}}

\* C19: incoming-links.txt written by spiderCrawl of spider.js is a map from
\* source to targets: for each fetched page it lists the link targets found on
\* that page.
C19_IncomingIsSourceToTargets ==
    (impl = "esm" /\ pc = "done") =>
        \A s \in Urls :
            site[s] # Unfetched =>
                \E r \in Range(FileRows("incoming-links.txt")) :
                    r.key = s /\ Range(r.val) = Targets(s)

\* C20: in both spiderCrawl implementations, a task whose depth equals maxDepth
\* is taken off the queue and its status is probed and recorded, and none of
\* its links becomes a task.
C20_LeafProbedNotExpanded ==
    Spider =>
        \A k \in 1..Len(log) :
            /\ (log[k].op = "SHIFT" /\ log[k].depth = maxDepth
                   /\ ~(k = Len(log) /\ pc = "head")) =>
                  /\ k < Len(log)
                  /\ log[k + 1].op = "HEAD" /\ log[k + 1].url = log[k].url
                  /\ impl = "cjs" => \E r \in Range(results) : r.url = log[k].url
            /\ log[k].op = "PUSH" => log[k].depth # maxDepth

(***************************************************************************)
(* The output path mapper: buildFolderPath of deepscrape.cjs and of         *)
(* src/fileHandler.js, each studied on its own.  A string is a sequence of  *)
(* characters; the hostname is kept as one token.                           *)
(***************************************************************************)
MaxPathLen == 3

\* characters the pathname of a parsed URL may hold (the parser percent-encodes
\* the others), the letters and digits among them, and white space
Alnum == {"a", "Z", "7"}
PathChars == Alnum \cup {".", "-", "_", "~", "%", "/"}
Whitespace == {" "}

\* str.split(sep)
RECURSIVE Split(_, _)
Split(str, sep) ==
    LET at == {k \in 1..Len(str) : str[k] = sep}
    IN  IF at = {} THEN <<str>>
        ELSE LET k == CHOOSE j \in at : \A j2 \in at : j <= j2
             IN  <<SubSeq(str, 1, k - 1)>> \o Split(SubSeq(str, k + 1, Len(str)), sep)

\* str.trim()
RECURSIVE Trim(_)
Trim(str) ==
    IF str = <<>> THEN str
    ELSE IF Head(str) \in Whitespace THEN Trim(Tail(str))
    ELSE IF str[Len(str)] \in Whitespace THEN Trim(SubSeq(str, 1, Len(str) - 1))
    ELSE str

\* path.join(...parts): the parts joined by "/", then normalised: empty and "."
\* segments dropped, ".." drops the segment before it
RECURSIVE PathNormalize(_, _)
PathNormalize(segs, acc) ==
    IF segs = <<>> THEN acc
    ELSE IF Head(segs) \in {<<>>, <<".">>} THEN PathNormalize(Tail(segs), acc)
    ELSE IF Head(segs) = <<".", ".">> /\ acc # <<>> /\ acc[Len(acc)] # <<".", ".">>
    THEN PathNormalize(Tail(segs), SubSeq(acc, 1, Len(acc) - 1))
    ELSE PathNormalize(Tail(segs), Append(acc, Head(segs)))
RECURSIVE JoinWith(_, _)
JoinWith(segs, sep) ==
    IF segs = <<>> THEN <<>>
    ELSE IF Len(segs) = 1 THEN segs[1]
    ELSE segs[1] \o <<sep>> \o JoinWith(Tail(segs), sep)
PathJoin(parts) ==
    LET segs == PathNormalize(Split(JoinWith(parts, "/"), "/"), <<>>)
    IN  IF segs = <<>> THEN <<".">> ELSE JoinWith(segs, "/")

\* deepscrape.cjs line 181: segment.replace(/[^a-zA-Z0-9.-]/g, '_')
sanitizeSegment(segment) ==
    [k \in 1..Len(segment) |->
        IF segment[k] \in Alnum \cup {".", "-"} THEN segment[k] ELSE "_"]

\* deepscrape.cjs lines 185-196; parsed = new URL(url)
CjsBuildFolderPath(parsed) ==
    LET domainFolder == <<parsed.hostname>>
        kept == SelectSeq(Split(parsed.pathname, "/"), LAMBDA seg : Len(Trim(seg)) > 0)
        pathSegments == [k \in 1..Len(kept) |-> sanitizeSegment(kept[k])]
    IN  IF Len(pathSegments) = 0 THEN domainFolder
        ELSE PathJoin(<<domainFolder>> \o pathSegments)

\* src/fileHandler.js lines 128-137; parsed = new URL(url)
EsmBuildFolderPath(parsed) ==
    LET segments == SelectSeq(Split(parsed.pathname, "/"), LAMBDA seg : seg # <<>>)
    IN  PathJoin(<<(<<parsed.hostname>>)>> \o segments)

\* the pathnames new URL gives: "/" first, no "." or ".." segment left
Pathnames ==
    {p \in {<<"/">> \o str : str \in SeqsUpTo(PathChars, MaxPathLen)} :
        \A seg \in Range(Split(p, "/")) : seg \notin {<<".">>, <<".", ".">>}}

\* the crawl state that a function studied on its own leaves alone
crawl == <<queue, visited, queued, linksList, brokenLinks, incomingLinks, results,
           cur, statusCode, i, browser, openPages, htmlFiles, reportFiles, faults,
           site, log>>

PathInit ==
    /\ impl \in {"cjs", "esm"}
    /\ input \in [hostname : Hosts, pathname : Pathnames]
    /\ output = <<>>
    /\ pc = "call"
    /\ startUrls = <<>> /\ maxDepth = 0 /\ rate = 0
    /\ Fresh /\ NoServer

CallCjsBuildFolderPath ==
    /\ impl = "cjs" /\ pc = "call"
    /\ output' = CjsBuildFolderPath(input)
    /\ pc' = "mapped"
    /\ UNCHANGED <<args, crawl, api, input>>

CallEsmBuildFolderPath ==
    /\ impl = "esm" /\ pc = "call"
    /\ output' = EsmBuildFolderPath(input)
    /\ pc' = "mapped"
    /\ UNCHANGED <<args, crawl, api, input>>

PathNext == CallCjsBuildFolderPath \/ CallEsmBuildFolderPath

PathSpec == PathInit /\ [][PathNext]_vars

\* the characters a segment of the folder path may hold: [A-Za-z0-9._-]
SafeChars == Alnum \cup {".", "_", "-"}
\* seg with every other character replaced by "_"
Sanitized(seg) == [k \in 1..Len(seg) |-> IF seg[k] \in SafeChars THEN seg[k] ELSE "_"]
\* host/seg1/.../segN for the non-empty segments of pathname
RECURSIVE FolderOf(_, _)
FolderOf(host, segs) ==
    IF segs = <<>> THEN <<host>>
    ELSE FolderOf(host, SubSeq(segs, 1, Len(segs) - 1))
             \o <<"/">> \o Sanitized(segs[Len(segs)])

\* C14: buildFolderPath (deepscrape.cjs and src/fileHandler.js) returns
\* host/seg1/.../segN for every parsable URL, each path segment holding only
\* characters of [A-Za-z0-9._-], every other character replaced by "_"; it
\* returns just the host when the path is "/".
C14_FolderPathSanitized ==
    pc = "mapped" =>
        LET segs == SelectSeq(Split(input.pathname, "/"), LAMBDA seg : seg # <<>>)
        IN  /\ output = FolderOf(input.hostname, segs)
            /\ \A k \in 2..Len(output) : output[k] \in SafeChars \cup {"/"}
            /\ input.pathname = <<"/">> => output = <<input.hostname>>

(***************************************************************************)
(* The dedup key: new URL(link, url).href, studied on two links of one page. *)
(* A link is written as its parts; href puts them together as the parser    *)
(* does.                                                                    *)
(***************************************************************************)
MaxQuery == 2

Schemes == {"https", "HTTPS"}
LinkPaths == {"", "/", "/about", "/about/"}
Params == {"a=1", "b=2", "c=3"}
Fragments == {"", "top"}
\* query strings: up to MaxQuery parameters, none twice
Queries ==
    {q \in SeqsUpTo(Params, MaxQuery) : \A j, k \in 1..Len(q) : j # k => q[j] # q[k]}
Links == [scheme : Schemes, path : LinkPaths, query : Queries, fragment : Fragments]

\* the parser lower-cases the scheme
LowerScheme(scheme) == IF scheme = "HTTPS" THEN "https" ELSE scheme
\* "?" and the parameters joined by "&", in the order written
RECURSIVE SearchOf(_)
SearchOf(q) ==
    IF q = <<>> THEN ""
    ELSE IF Len(q) = 1 THEN "?" \o q[1]
    ELSE SearchOf(SubSeq(q, 1, Len(q) - 1)) \o "&" \o q[Len(q)]
\* new URL(link, url).href of an absolute link on example.com: the scheme in
\* lower case, an empty path becomes "/", the query and the fragment are kept
\* as written
Href(link) ==
    LowerScheme(link.scheme) \o "://example.com"
        \o (IF link.path = "" THEN "/" ELSE link.path)
        \o SearchOf(link.query)
        \o (IF link.fragment = "" THEN "" ELSE "#" \o link.fragment)

\* deepscrape.cjs lines 354-366 on the links of a page of example.com
\* st = [queue, visited]
RECURSIVE CjsFrontier(_, _, _)
CjsFrontier(anchors, k, st) ==
    IF k > Len(anchors) THEN st
    ELSE LET newUrl == Href(anchors[k])
         IN  IF CjsShouldQueue("example.com", "example.com", newUrl, st.visited)
             THEN CjsFrontier(anchors, k + 1,
                      [queue |-> Append(st.queue, newUrl),
                       visited |-> st.visited \cup {newUrl}])
             ELSE CjsFrontier(anchors, k + 1, st)

\* src/spider.js lines 75-89 on the links of a page of example.com (no link
\* here matches isImageUrl);  st = [queue, visited, queued]
RECURSIVE EsmFrontier(_, _, _)
EsmFrontier(matches, k, st) ==
    IF k > Len(matches) THEN st
    ELSE LET link == Href(matches[k])
         IN  IF link \in st.visited \/ link \in st.queued
             THEN EsmFrontier(matches, k + 1, st)
             ELSE EsmFrontier(matches, k + 1,
                      [queue |-> Append(st.queue, link),
                       visited |-> st.visited,
                       queued |-> st.queued \cup {link}])

\* a page of example.com holds the two links input.a and input.b
KeyInit ==
    /\ impl \in {"cjs", "esm"}
    /\ input \in [a : Links, b : Links]
    /\ output = <<>>
    /\ pc = "links"
    /\ startUrls = <<>> /\ maxDepth = 0 /\ rate = 0
    /\ Fresh /\ NoServer

CjsLinkLoop ==
    /\ impl = "cjs" /\ pc = "links"
    /\ output' = CjsFrontier(<<input.a, input.b>>, 1, [queue |-> <<>>, visited |-> {}]).queue
    /\ pc' = "keyed"
    /\ UNCHANGED <<args, crawl, api, input>>

EsmLinkLoop ==
    /\ impl = "esm" /\ pc = "links"
    /\ output' = EsmFrontier(<<input.a, input.b>>, 1,
                             [queue |-> <<>>, visited |-> {}, queued |-> {}]).queue
    /\ pc' = "keyed"
    /\ UNCHANGED <<args, crawl, api, input>>

KeyNext == CjsLinkLoop \/ EsmLinkLoop

KeySpec == KeyInit /\ [][KeyNext]_vars

\* a and b differ in nothing but the field f
SameBut(a, b, f) == \A g \in {"scheme", "path", "query", "fragment"} \ {f} : a[g] = b[g]
\* a and b differ only by fragment, by one trailing slash, by the order of the
\* query parameters, or by the case of the scheme
DifferOnlyBy(a, b) ==
    \/ SameBut(a, b, "fragment")
    \/ SameBut(a, b, "path") /\ b.path = a.path \o "/"
    \/ SameBut(a, b, "query") /\ Range(a.query) = Range(b.query)
    \/ SameBut(a, b, "scheme") /\ LowerScheme(a.scheme) = LowerScheme(b.scheme)

\* C15: two links that differ only by fragment, by a single trailing slash, by
\* query-parameter order or by scheme case have the same dedup key
\* new URL(link, base).href, so at most one of them becomes a frontier entry.
C15_VariantsShareKey ==
    (pc = "keyed" /\ (DifferOnlyBy(input.a, input.b) \/ DifferOnlyBy(input.b, input.a))) =>
        /\ Href(input.a) = Href(input.b)
        /\ Len(output) <= 1

(***************************************************************************)
(* The server: POST /scrape/spider of src/api.js.  Every request runs       *)
(* spiderCrawl of src/spider.js with its own local variables; the requests  *)
(* share the disk and the clock.  The web answers every probe and fetch     *)
(* (ApiSite); a step is the code between two awaits that touches the disk,   *)
(* with the steps on local variables before it.                             *)
(***************************************************************************)
MaxRequests == 2
MaxDays == 2

Requests == 1..MaxRequests
ApiUrls == {Root, About, Other}
ApiDepths == {1, 2}
\* the links of the pages the server crawls
ApiSite(u) ==
    CASE u = Root  -> ScenarioLinks
      [] u = About -> <<"/">>
      [] OTHER     -> <<>>

\* now.toLocaleDateString('en-GB').replace(/\//g, '-')
DatePart(day) == IF day = 1 THEN "15-03-2025" ELSE "16-03-2025"
\* fileHandler.js lines 108-118: path.join('output', domain, datePart)
generateOutputDir(baseUrl, day) == <<"output", Hostname(baseUrl), DatePart(day)>>

\* new URL(url).pathname
Pathname(u) == IF PathAndQuery(u) = "/view?img=1" THEN "/view" ELSE PathAndQuery(u)
\* scraper.js lines 14-23: hostname/index.html or hostname/<pathname>.html
buildPagePath(u) ==
    LET pathName == IF Pathname(u) = "/" THEN "" ELSE Pathname(u)
    IN  <<Hostname(u), IF pathName = "" THEN "index.html" ELSE pathName \o ".html">>

\* a spiderCrawl call that has not started
NoCrawl ==
    [pc |-> "idle", domain |-> "", outDir |-> <<>>, maxDepth |-> 0, queue |-> <<>>,
     visited |-> {}, queued |-> {}, linksList |-> <<>>, cur |-> NoTask, wrote |-> 0]

\* fs.writeFile(path) by request r: creates the file or replaces it; the file
\* remembers the requests whose content was replaced by another request
DiskWrite(files, path, r) ==
    LET old == {f \in files : f.path = path}
        gone == UNION {f.replaced \cup {f.by} : f \in old}
    IN  (files \ old) \cup {[path |-> path, by |-> r, replaced |-> gone \ {r}]}

ApiInit ==
    /\ crawls = [r \in Requests |-> NoCrawl]
    /\ disk = {}
    /\ today = 1
    /\ impl = "esm" /\ pc = "server"
    /\ startUrls = <<>> /\ maxDepth = 0 /\ rate = 0
    /\ Fresh /\ NoCall

\* the date changes
Midnight ==
    /\ today < MaxDays
    /\ today' = today + 1
    /\ UNCHANGED <<args, pc, crawl, pure, crawls, disk>>

\* api.js lines 124-133 and spider.js lines 29-55: the request arrives and
\* spiderCrawl([url], rateLimit, maxDepth, ...) runs up to its first await
ApiPost(r) ==
    /\ crawls[r].pc = "idle"
    /\ \E url \in ApiUrls, depth \in ApiDepths :
          crawls' = [crawls EXCEPT ![r] =
              [pc |-> "loop", domain |-> Hostname(url),
               outDir |-> generateOutputDir(url, today), maxDepth |-> depth,
               queue |-> <<Task(url, 0)>>, visited |-> {}, queued |-> {},
               linksList |-> <<>>, cur |-> NoTask, wrote |-> 0]]
    /\ UNCHANGED <<args, pc, crawl, pure, disk, today>>

\* spider.js lines 75-89 for the crawl c;  c.cur is the page
RECURSIVE ApiEnqueueLinks(_, _, _)
ApiEnqueueLinks(matches, k, c) ==
    IF k > Len(matches) THEN c
    ELSE IF Unparsable(matches[k]) THEN ApiEnqueueLinks(matches, k + 1, c)
    ELSE LET link == Resolve(matches[k], c.cur.url)
         IN  IF EsmSkipLink(link, c.visited, c.queued)
             THEN ApiEnqueueLinks(matches, k + 1, c)
             ELSE ApiEnqueueLinks(matches, k + 1,
                      [c EXCEPT !.linksList = SetAdd(@, link),
                                !.queued = @ \cup {link},
                                !.queue = IF Hostname(link) = c.domain
                                          THEN Append(@, Task(link, c.cur.depth + 1))
                                          ELSE @])

\* spider.js lines 57-98: take a task; skip it (line 59), or probe and fetch it
\* and collect its links
ApiTask(r) ==
    LET c == crawls[r]
        t == Head(c.queue)
        taken == [c EXCEPT !.queue = Tail(@), !.cur = t]
    IN  /\ c.pc = "loop" /\ Len(c.queue) > 0
        /\ crawls' = [crawls EXCEPT ![r] =
              IF t.depth >= c.maxDepth \/ t.url \in c.visited \/ isImageUrl(t.url)
              THEN taken
              ELSE [ApiEnqueueLinks(ApiSite(t.url), 1,
                                    [taken EXCEPT !.visited = @ \cup {t.url}])
                       EXCEPT !.pc = "scrape"]]
        /\ UNCHANGED <<args, pc, crawl, pure, disk, today>>

\* spider.js lines 100-101 and scraper.js lines 34-67: the HTML of the page is
\* written to path.join(outDir, buildPagePath(url))
ApiScrape(r) ==
    LET c == crawls[r]
    IN  /\ c.pc = "scrape"
        /\ disk' = DiskWrite(disk, c.outDir \o buildPagePath(c.cur.url), r)
        /\ crawls' = [crawls EXCEPT ![r].pc = "loop"]
        /\ UNCHANGED <<args, pc, crawl, pure, today>>

\* spider.js lines 57, 104: the queue is empty; browser.close()
ApiLoopExit(r) ==
    /\ crawls[r].pc = "loop" /\ Len(crawls[r].queue) = 0
    /\ crawls' = [crawls EXCEPT ![r].pc = "report"]
    /\ UNCHANGED <<args, pc, crawl, pure, disk, today>>

\* spider.js lines 107-109: the next of the three report files is written to
\* outDir; after the last, api.js line 135 answers the request
ApiWriteReport(r) ==
    LET c == crawls[r]
    IN  /\ c.pc = "report"
        /\ disk' = DiskWrite(disk, Append(c.outDir, EsmReports[c.wrote + 1].name), r)
        /\ crawls' = [crawls EXCEPT ![r].wrote = @ + 1,
                                     ![r].pc = IF c.wrote + 1 = Len(EsmReports)
                                               THEN "done" ELSE "report"]
        /\ UNCHANGED <<args, pc, crawl, pure, today>>

ApiNext ==
    \/ Midnight
    \/ \E r \in Requests :
          ApiPost(r) \/ ApiTask(r) \/ ApiScrape(r) \/ ApiLoopExit(r) \/ ApiWriteReport(r)

ApiSpec == ApiInit /\ [][ApiNext]_vars

\* C16: two crawls started through POST /scrape/spider and interleaved at
\* their awaits share no state: each has its own queue, visited set and output
\* directory, and no file written by one is overwritten by the other, also
\* when both crawl the same domain on the same day.
C16_CrawlsShareNothing ==
    /\ \A f \in disk : f.replaced = {}
    /\ \A r1, r2 \in Requests :
          (r1 # r2 /\ crawls[r1].pc # "idle" /\ crawls[r2].pc # "idle") =>
              crawls[r1].outDir # crawls[r2].outDir

\* the tasks put on the queue so far: the seeds, then the pushed children
Enqueued ==
    LET pushes == Events("PUSH")
    IN  (IF pc = "start" \/ pc = "returned" THEN <<>>
         ELSE [k \in 1..Len(startUrls) |-> Task(startUrls[k], 0)])
        \o [k \in 1..Len(pushes) |-> Task(pushes[k].arg, pushes[k].depth + 1)]

\* C21: in both spiderCrawl implementations, for every maxDepth >= 0, no task,
\* seed or discovered link, is ever placed on the work queue with
\* depth >= maxDepth.
C21_NeverEnqueuedAtMaxDepth ==
    Spider =>
        /\ \A k \in 1..Len(queue) : queue[k].depth < maxDepth
        /\ \A k \in 1..Len(Enqueued) : Enqueued[k].depth < maxDepth

\* C21 as amended: no task, seed or discovered link, is ever placed on the work
\* queue with depth > maxDepth; seeds are placed at depth 0 and a child at
\* depth == maxDepth is placed on the queue.
C21_NeverEnqueuedBeyondMaxDepth ==
    Spider =>
        /\ \A k \in 1..Len(queue) : queue[k].depth <= maxDepth
        /\ \A k \in 1..Len(log) : log[k].op = "PUSH" => log[k].depth + 1 <= maxDepth
\* a child waits in the queue at depth == maxDepth
C21_Witness ==
    /\ Spider /\ maxDepth >= 1
    /\ \E k \in 1..Len(queue) : queue[k].depth = maxDepth
    /\ \E k \in 1..Len(log) : log[k].op = "PUSH" /\ log[k].depth + 1 = maxDepth

\* C22: in both spiderCrawl implementations, tasks are dequeued in exactly the
\* order in which they were enqueued, seeds in the given order, then discovered
\* links in discovery order, so the depths of successively dequeued tasks never
\* decrease.
C22_FifoOrder ==
    Spider =>
        LET shifted == Events("SHIFT")
            enq == Enqueued
        IN  /\ Len(shifted) <= Len(enq)
            /\ \A k \in 1..Len(shifted) :
                   Task(shifted[k].url, shifted[k].depth) = enq[k]
            /\ \A k \in 1..(Len(shifted) - 1) :
                   shifted[k].depth <= shifted[k + 1].depth
\* two seeds and at least two discovered links, all dequeued, down to depth 2
C22_Witness ==
    /\ Spider /\ pc = "done"
    /\ Len(startUrls) = 2
    /\ Len(Events("PUSH")) >= 2
    /\ Len(Events("SHIFT")) = Len(Enqueued)
    /\ \E k \in 1..Len(log) : log[k].op = "SHIFT" /\ log[k].depth = 2

\* every parsable link of the fetched page s was looked at by the link loop:
\* it is in the set the loop dedups with, unless the loop leaves it out (another
\* host in deepscrape.cjs, an image URL in spider.js)
LinksLookedAt(s) ==
    \A c \in Targets(s) :
        IF impl = "cjs" THEN Hostname(c) = Hostname(s) => c \in visited
        ELSE ~isImageUrl(c) => c \in visited \cup queued

\* C23: in both spiderCrawl implementations a URL that cannot be parsed never
\* enters the frontier: an unparsable link is dropped without a change to the
\* queue, the visited and queued sets or the report data, the other links of
\* the page are still processed, and no unparsable seed is enqueued.
C23_UnparsableNeverEnqueued ==
    Spider =>
        /\ \A k \in 1..Len(Enqueued) : Enqueued[k].url \in Urls
        /\ \A k \in 1..Len(queue) : queue[k].url \in Urls
        /\ visited \cup queued \cup Range(linksList) \subseteq Urls
        /\ \A s \in Urls : site[s] # Unfetched => LinksLookedAt(s)

\* C24: in spiderCrawl of spider.js a link the classifier accepts is added to
\* queued in the same step, so at every moment every URL waiting in the work
\* queue is a member of queued or of visited, and the queue never holds the
\* same URL twice.
C24_QueueMarkedAndDistinct ==
    impl = "esm" =>
        /\ \A k \in 1..Len(queue) : queue[k].url \in queued \cup visited
        /\ \A j, k \in 1..Len(queue) : j # k => queue[j].url # queue[k].url

\* the step of a task an event belongs to: probe, render, persist, then link
\* extraction and the enqueueing of children
StepRank(op) ==
    CASE op = "HEAD" -> 1
      [] op = "GOTO" -> 2
      [] op = "SAVE" -> 3
      [] op = "GET"  -> 4
      [] op = "PUSH" -> 5
      [] OTHER       -> 0
\* the events j < k belong to the same task: no task is dequeued between them
SameTask(j, k) == \A m \in (j + 1)..k : log[m].op # "SHIFT"

\* C25: in both spiderCrawl implementations at most one task is in flight, and
\* for each dequeued task the steps run in the order probe, render, persist,
\* extract links, enqueue children, all of them over before the next task is
\* dequeued.
C25_StepsInOrder ==
    Spider =>
        \A j, k \in 1..Len(log) :
            (j < k /\ SameTask(j, k)) =>
                /\ log[k].url = log[j].url
                /\ (StepRank(log[j].op) > 0 /\ StepRank(log[k].op) > 0) =>
                       StepRank(log[j].op) <= StepRank(log[k].op)

\* the crawl has ended as the claim says, or because the disk refused the
\* report (deepscrape.cjs throws from the report step only; spider.js writes
\* its reports after it has closed the browser)
CrawlEnded ==
    \/ /\ pc = "done" /\ queue = <<>> /\ browser = "closed"
       /\ (FileExists("spider_report.txt") \/ FileExists("incoming-links.txt"))
    \/ pc = "aborted" /\ (impl = "cjs" \/ browser = "closed")

\* C26: for any finite set of pages with any links between them, any seed list
\* and any maxDepth, both spiderCrawl implementations eventually empty the
\* queue, write the report and close the browser, provided every probe, fetch
\* and render call returns or fails.
C26_CrawlTerminates ==
    (Spider /\ pc = "start" /\ Len(startUrls) > 0) ~> CrawlEnded

\* C27: in spiderCrawl of deepscrape.cjs, started with seeds that may be on
\* different hosts, every task ever placed on the queue has the hostname of at
\* least one seed: a link is enqueued only when its hostname equals the hostname
\* of the task URL it was found on.
C27_StaysOnSeedHosts ==
    impl = "cjs" =>
        LET seedHosts == {Hostname(startUrls[s]) : s \in 1..Len(startUrls)}
        IN  /\ \A k \in 1..Len(queue) : Hostname(queue[k].url) \in seedHosts
            /\ \A k \in 1..Len(log) :
                   log[k].op = "PUSH" =>
                       LET h == Hostname(log[k].arg)
                       IN  h = Hostname(log[k].url) /\ h \in seedHosts

\* seeds on two hosts, a link enqueued on each host, and a link to the other
\* host seen on a page and left out
C27_Witness ==
    /\ impl = "cjs"
    /\ \E s, t \in 1..Len(startUrls) : Hostname(startUrls[s]) # Hostname(startUrls[t])
    /\ \E j, k \in 1..Len(log) :
           /\ log[j].op = "PUSH" /\ log[k].op = "PUSH"
           /\ Hostname(log[j].url) # Hostname(log[k].url)
    /\ \E k \in 1..Len(log) :
           /\ log[k].op = "GOTO"
           /\ log[k].url \in Urls
           /\ site[log[k].url] # Unfetched
           /\ \E n \in 1..Len(site[log[k].url]) :
                  LET a == site[log[k].url][n]
                  IN  /\ ~Unparsable(a)
                      /\ Hostname(Resolve(a, log[k].url)) # Hostname(log[k].url)

(***************************************************************************)
(* The callers of spiderCrawl of src/spider.js: the command line (index.js) *)
(* and POST /scrape/spider (api.js).  input is what the caller was given,   *)
(* output the parameters spiderCrawl received.                              *)
(***************************************************************************)
False == Str("false")
\* the values of --rate-limit on the command line (Undefined: not given), and
\* of maxDepth and rateLimit in a request body (Undefined: not given)
CliRateOptions == {Undefined, Num(0), Num(1)}
BodyDepths == {Undefined, Num(0), Num(1)}
BodyRates == {Undefined, Num(0), Num(1)}
CallUrls == {Root, Other}
Invocations ==
    [caller : {"cli"}, url : CallUrls, maxDepth : {Undefined},
     rateLimit : CliRateOptions, skipImages : {False}, screenshot : {False}]
    \cup
    [caller : {"api"}, url : CallUrls, maxDepth : BodyDepths,
     rateLimit : BodyRates, skipImages : {False}, screenshot : {False}]

\* spider.js line 29: the parameters take the arguments by position
EsmParameters(argv) ==
    [startUrls |-> argv[1], rateLimit |-> argv[2], maxDepth |-> argv[3],
     downloadImages |-> argv[4], screenshotFlag |-> argv[5]]

\* index.js line 140: --rate-limit <ms>, 1000 when the option is absent
CliRateLimit(opt) == IF opt = Undefined THEN Num(1000) ELSE opt
\* index.js line 141: generateUniqueOutputDir('./output'), a directory name
CliOutDir == Str("./output")
\* index.js line 147:
\* spiderCrawl([spiderUrl], outDir, rateLimit, 2, skipImages, screenshotFlag)
CliArguments(inv) ==
    << <<inv.url>>, CliOutDir, CliRateLimit(inv.rateLimit), Num(2),
       inv.skipImages, inv.screenshot >>

\* api.js line 125: a destructuring default applies to a missing field
Default(v, d) == IF v = Undefined THEN d ELSE v
\* api.js line 133:
\* spiderCrawl([url], rateLimit, maxDepth, parseBoolean(..), parseBoolean(..))
ApiArguments(body) ==
    << <<body.url>>, Default(body.rateLimit, Num(1000)), Default(body.maxDepth, Num(2)),
       body.skipImages, body.screenshot >>

\* utils.js lines 1-3: setTimeout(resolve, ms) waits ms when ms is a number
\* from 1 up, and 1 ms for anything else
TimerDelay(ms) == IF ms.tag = "number" /\ ms.n >= 1 THEN ms.n ELSE 1

CallInit ==
    /\ input \in Invocations
    /\ output = <<>>
    /\ impl = "esm" /\ pc = "call"
    /\ startUrls = <<>> /\ maxDepth = 0 /\ rate = 0
    /\ Fresh /\ NoServer

\* spiderCrawl is entered with the arguments argv
EnterSpiderCrawl(argv) ==
    LET p == EsmParameters(argv)
    IN  /\ output' = p
        /\ startUrls' = p.startUrls
        /\ maxDepth' = p.maxDepth.n
        /\ rate' = TimerDelay(p.rateLimit)
        /\ pc' = "start"
        /\ UNCHANGED <<impl, input, api, crawl>>

\* index.js lines 145-147: node index.js -spider <url> [--rate-limit <ms>]
CliSpider ==
    /\ pc = "call" /\ input.caller = "cli"
    /\ EnterSpiderCrawl(CliArguments(input))

\* api.js lines 124-133: POST /scrape/spider
ApiSpider ==
    /\ pc = "call" /\ input.caller = "api"
    /\ EnterSpiderCrawl(ApiArguments(input))

CallNext == CliSpider \/ ApiSpider \/ EsmNext

CallSpec == CallInit /\ [][CallNext]_vars

\* what the caller means the crawl to run with
IntendedMaxDepth ==
    IF input.caller = "cli" THEN 2
    ELSE IF input.maxDepth = Undefined THEN 2 ELSE input.maxDepth.n
IntendedRateLimit ==
    IF input.rateLimit = Undefined THEN Num(1000) ELSE input.rateLimit

\* C28: the depth bound and the delay spiderCrawl of src/spider.js runs with
\* are the ones its caller intends: maxDepth 2 and the --rate-limit value
\* (default 1000 ms) from the command line, the request's maxDepth (default 2)
\* and rateLimit through POST /scrape/spider.
C28_RunsWithIntendedBounds ==
    pc # "call" =>
        /\ maxDepth = IntendedMaxDepth
        /\ output.maxDepth = Num(IntendedMaxDepth)
        /\ output.rateLimit = IntendedRateLimit

\* C29: in spiderCrawl of deepscrape.cjs every browser page opened for a task
\* is closed before the next task is dequeued, also when navigation, the
\* cookie banner, persistence or link extraction throws for that task; never
\* more than one page is open.
C29_PageClosedBeforeNextTask ==
    impl = "cjs" =>
        /\ openPages <= 1
        /\ pc \in {"loop", "head"} => openPages = 0

\* the row of the task URL u is in spider_report.txt
HasReportRow(u) ==
    \E st \in CjsStatuses :
        (u \o ", " \o StatusText(st)) \in Range(FileRows("spider_report.txt"))

\* C30: in spiderCrawl of deepscrape.cjs a task is rendered and its HTML
\* persisted only if its probe status is below 400 and its depth is strictly
\* less than maxDepth; a task dequeued at depth = maxDepth gets a row in the
\* report and never produces an artifact.
C30_RenderedOnlyBelowMaxDepth ==
    impl = "cjs" =>
        /\ \A k \in 1..Len(log) :
               log[k].op \in {"GOTO", "SAVE"} =>
                   LET p == IF log[k].op = "GOTO" THEN k - 1 ELSE k - 2
                   IN  /\ log[k].depth < maxDepth
                       /\ p >= 1
                       /\ log[p].op = "HEAD" /\ log[p].arg = "200"
                       /\ log[p].url = log[k].url /\ log[p].depth = log[k].depth
        /\ \A u \in htmlFiles :
               \E k \in 1..Len(log) : log[k].op = "SAVE" /\ log[k].url = u
        /\ pc = "done" =>
               \A h \in 1..Len(log) :
                   (log[h].op = "SHIFT" /\ log[h].depth = maxDepth) =>
                       /\ HasReportRow(log[h].url)
                       /\ log[h].url \notin htmlFiles

\* a finished crawl that rendered a page, dequeued one of its links at
\* depth = maxDepth with a 200 probe, and met a 404 below maxDepth
C30_Witness ==
    /\ impl = "cjs" /\ pc = "done" /\ maxDepth >= 1
    /\ \E k \in 1..Len(log) : log[k].op = "SAVE"
    /\ \E h \in 1..Len(log) :
           log[h].op = "HEAD" /\ log[h].depth = maxDepth /\ log[h].arg = "200"
    /\ \E h \in 1..Len(log) :
           log[h].op = "HEAD" /\ log[h].depth < maxDepth /\ log[h].arg = "404"

====
